---- MODULE Spec2Model ----
(***************************************************************************)
(* A model of the pdok-apis crate: the BAG building resolver               *)
(* (bag.rs: get_panden / decode_verblijfsobjecten / get_link,              *)
(* get_bag_status and the GeoJSON-to-polygon helpers), the BRK lot lookup  *)
(* (brk.rs: get_lot), the bounding-box utilities (util.rs), the client     *)
(* builders (bag.rs, brk.rs, lookup.rs) and the equality and ordering of   *)
(* Lot and Pand.                                                           *)
(*                                                                         *)
(* f64 values are modelled by integers: every input is a small integer     *)
(* and every division by two is applied to an even number, so the float    *)
(* arithmetic of the code is exact on the modelled values.                 *)
(*                                                                         *)
(* Rust's Option<T> is a sequence of length 0 (None) or 1 (Some).          *)
(* Result<T, E> and a panic are records tagged by "kind".                  *)
(***************************************************************************)
EXTENDS Integers, Sequences, FiniteSets, TLC

\* ------------------------------------------------------------------------
\* Bounds of the model
\* ------------------------------------------------------------------------
MaxLinks == 2
MaxRings == 3
MaxFeatures == 2
MaxBoxes == 3
MaxIdLen == 2
MaxSetterCalls == 2

VARIABLES
    entry,          \* which public entry point of the crate this run drives
    \* --- the BAG registry (the external service) ----------------------
    rootDoc,        \* body served at /verblijfsobjecten/{object_id}
    linkDoc,        \* body served at each maaktDeelUitVan href
    \* --- one get_panden call ------------------------------------------
    \* (every variable is a function of the call)
    pc,             \* position of the call (it suspends at every .await:
                    \* bag.rs:109 for the root, bag.rs:183 for a link)
    sent,           \* urls of the requests the call has issued, in order
                    \* (bag.rs:104-108, bag.rs:92)
    replies,        \* what came back for each request, in order
    objectstatus,   \* bag.rs:171
    vloeroppervlak, \* bag.rs:172
    gebruiksdoel,   \* bag.rs:175
    panden,         \* bag.rs:177, the hrefs of links.maakt_deel_uit_van
    results,        \* bag.rs:179
    ret,            \* what get_panden handed to its caller
    status_ret,     \* what get_bag_status handed to its caller, when the
                    \* run drives get_panden through it (bag.rs:120-128)
    \* --- one get_lot call ---------------------------------------------
    brkDoc,         \* body served by the BRK WFS endpoint
    brk_pc,         \* position of the call (it suspends at brk.rs:109)
    brk_query,      \* <<gemeentecode, sectie, perceelnummer>> (brk.rs:91-93)
    brk_reply,      \* what came back for the request (brk.rs:109)
    brk_ret,        \* what get_lot handed to its caller
    \* --- pure functions of bag.rs and util.rs -------------------------
    fn_in,          \* the argument(s) the function is applied to
    fn_out,         \* its result, NotRun until it has been applied
    \* --- construction of a client -------------------------------------
    builder,        \* the BagClientBuilder, BrkClientBuilder or
                    \* LookupClientBuilder (bag.rs:18-24, brk.rs:19-24,
                    \* lookup.rs:19-23), None when the run starts from a
                    \* built client
    builder_calls,  \* the setters called on the builder so far, in order
    client          \* the reqwest Client held by the built BagClient,
                    \* BrkClient or LookupClient (bag.rs:14-16,
                    \* brk.rs:15-17, lookup.rs:15-17), None until build

bagVars == <<rootDoc, linkDoc, pc, sent, replies, objectstatus, vloeroppervlak,
             gebruiksdoel, panden, results, ret, status_ret>>
brkVars == <<brkDoc, brk_pc, brk_query, brk_reply, brk_ret>>
fnVars == <<fn_in, fn_out>>
cfgVars == <<builder, builder_calls, client>>
vars == <<entry, bagVars, brkVars, fnVars, cfgVars>>

\* ------------------------------------------------------------------------
\* Rust values
\* ------------------------------------------------------------------------
None == <<>>
Some(v) == <<v>>
Ok(v) == [kind |-> "Ok", val |-> v]
Err(e) == [kind |-> "Err", err |-> e]
Panic == [kind |-> "panic"]
\* a plain (non-Result) function returned v
Returned(v) == [kind |-> "ret", val |-> v]
NoReturn == [kind |-> "none"]
NotRun == [kind |-> "notrun"]

\* lib.rs: the variants of Error
Error == {"NetworkProblem", "JsonProblem", "EmptyResponse"}

\* ------------------------------------------------------------------------
\* bag.rs: GeoJSON value -> geo::Polygon
\* A geojson::Value is [type, coordinates]; a Position is a sequence of
\* numbers; a Polygon's coordinates are its rings, outer ring first.
\* ------------------------------------------------------------------------

\* geo::LineString::close, applied by geo::Polygon::new to every ring:
\* the first point is pushed again unless first = last.
LineString_close(ls) ==
    IF ls = <<>> \/ ls[1] = ls[Len(ls)] THEN ls ELSE Append(ls, ls[1])

Polygon_new(exterior, interiors) ==
    [exterior |-> LineString_close(exterior),
     interiors |-> [i \in 1..Len(interiors) |-> LineString_close(interiors[i])]]

\* A position of 2 or 3 components gives the point (x, y); any other
\* length panics ("invalid positions for a polygon").
linestring_help(value) ==
    IF \E i \in 1..Len(value) : Len(value[i]) \notin {2, 3}
    THEN Panic
    ELSE Returned([i \in 1..Len(value) |-> <<value[i][1], value[i][2]>>])

geojson_value_to_polygon_swaps_rings(value) ==
    IF value.type # "Polygon" THEN Returned(None)
    ELSE IF value.coordinates = <<>> THEN Panic
    ELSE LET rings == value.coordinates
             n == Len(rings)
             outer == linestring_help(rings[n])
             inners == [i \in 1..(n - 1) |-> linestring_help(rings[i])]
         IN  IF outer.kind = "panic" \/ \E i \in 1..(n - 1) : inners[i].kind = "panic"
             THEN Panic
             ELSE Returned(Some(Polygon_new(outer.val, [i \in 1..(n - 1) |-> inners[i].val])))

\* Returned(None) for every value that is not a Polygon; a Polygon without rings
\* hits unreachable!(); a ring with a bad position panics in linestring_help.
geojson_value_to_polygon(value) ==
    IF value.type # "Polygon" THEN Returned(None)
    ELSE IF value.coordinates = <<>> THEN Panic
    ELSE LET rings == value.coordinates
             outer_positions == Head(rings)
             inner_positions == Tail(rings)
             outer == linestring_help(outer_positions)
             inners == [i \in 1..Len(inner_positions) |->
                           linestring_help(inner_positions[i])]
         IN  IF outer.kind = "panic"
                \/ \E i \in 1..Len(inner_positions) : inners[i].kind = "panic"
             THEN Panic
             ELSE Returned(Some(Polygon_new(outer.val,
                            [i \in 1..Len(inner_positions) |-> inners[i].val])))

\* Option::unwrap of the value above (bag.rs:185): None panics too.
unwrap(r) ==
    IF r.kind = "panic" \/ r.val = None THEN Panic ELSE Returned(r.val[1])

\* geo's Area::unsigned_area, carried as twice the area so that it stays an
\* integer: shoelace sum of a closed ring, holes subtracted.
RECURSIVE Shoelace2(_, _)
Shoelace2(ls, i) ==
    IF i >= Len(ls) THEN 0
    ELSE (ls[i][1] * ls[i + 1][2] - ls[i + 1][1] * ls[i][2]) + Shoelace2(ls, i + 1)

Abs(n) == IF n < 0 THEN -n ELSE n

RECURSIVE SumAbsShoelace2(_, _)
SumAbsShoelace2(lss, i) ==
    IF i > Len(lss) THEN 0
    ELSE Abs(Shoelace2(lss[i], 1)) + SumAbsShoelace2(lss, i + 1)

unsigned_area2(polygon) ==
    Abs(Abs(Shoelace2(polygon.exterior, 1)) - SumAbsShoelace2(polygon.interiors, 1))

\* f64::round (half away from zero) of a non-negative half-integer, then
\* to_string.
pandvlak_of(polygon) == ToString((unsigned_area2(polygon) + 1) \div 2)

\* ------------------------------------------------------------------------
\* The BAG registry as the resolver sees it
\* ------------------------------------------------------------------------
Calls == {1, 2}
RootUrl == "verblijfsobjecten/0268010000084126"
Hrefs == {"panden/0268100000012345", "panden/0268100000067890"}

SquareRing == <<<<0, 0>>, <<4, 0>>, <<4, 4>>, <<0, 4>>, <<0, 0>>>>
HoleRing3D == <<<<1, 1, 7>>, <<3, 1, 7>>, <<3, 3, 7>>, <<1, 1, 7>>>>
OpenRing == <<<<0, 0>>, <<2, 0>>, <<0, 2>>>>
BadRing == <<<<0, 0>>, <<4, 0, 0, 9>>, <<0, 4>>, <<0, 0>>>>

Geometry(type, coordinates) == [value |-> [type |-> type, coordinates |-> coordinates]]

BagGeometries ==
    {Geometry("Polygon", <<SquareRing>>),
     Geometry("Polygon", <<SquareRing, HoleRing3D>>),
     Geometry("Polygon", <<BadRing>>),
     Geometry("Point", <<2, 2>>)}

Garbage == [kind |-> "garbage"]

\* The body of a Building response (bag.rs:232-247).
BuildingDocs(href) ==
    {[kind |-> "json",
      pand |-> [identificatie |-> IF href = "panden/0268100000012345"
                                  THEN "0268100000012345" ELSE "0268100000067890",
                geometry |-> g,
                bouwjaar |-> IF href = "panden/0268100000012345" THEN "2008" ELSE "1975",
                pandstatus |-> IF href = "panden/0268100000012345"
                               THEN "Pand in gebruik" ELSE "Sloopvergunning verleend"]]
     : g \in BagGeometries}

RECURSIVE SeqsUpTo(_, _)
SeqsUpTo(S, n) ==
    IF n = 0 THEN {<<>>}
    ELSE LET shorter == SeqsUpTo(S, n - 1)
         IN  shorter \cup {Append(s, x) : s \in shorter, x \in S}

\* The fields of a verblijfsobject; status and oppervlakte may be absent
\* from the payload (#[serde(default)], bag.rs:154-157).
VerblijfsObjects ==
    {[status |-> Some("Verblijfsobject in gebruik"), oppervlakte |-> Some(85),
      gebruiksdoelen |-> <<"woonfunctie">>],
     [status |-> None, oppervlakte |-> None, gebruiksdoelen |-> <<>>],
     [status |-> Some("Verblijfsobject gevormd"), oppervlakte |-> Some(120),
      gebruiksdoelen |-> <<"woonfunctie", "kantoorfunctie">>]}

\* The body of a verblijfsobject response (bag.rs:134-159).
VerblijfsObjectDocs ==
    {[kind |-> "json", verblijfsobject |-> v, links |-> l]
     : v \in VerblijfsObjects, l \in SeqsUpTo(Hrefs, MaxLinks)}

TransportError == [kind |-> "transport_error"]
Body(doc) == [kind |-> "body", doc |-> doc]

\* ------------------------------------------------------------------------
\* bag.rs: BagClient
\* ------------------------------------------------------------------------

decode_VerblijfsObjectResponse_lenient(doc) ==
    IF doc.kind # "json" \/ "verblijfsobject" \notin DOMAIN doc
    THEN Ok([verblijfsobject |-> [status |-> "", oppervlakte |-> 0, gebruiksdoelen |-> <<>>],
             links |-> [maakt_deel_uit_van |-> <<>>]])
    ELSE Ok([verblijfsobject |->
                [status |-> IF doc.verblijfsobject.status = None THEN ""
                            ELSE doc.verblijfsobject.status[1],
                 oppervlakte |-> IF doc.verblijfsobject.oppervlakte = None THEN 0
                                 ELSE doc.verblijfsobject.oppervlakte[1],
                 gebruiksdoelen |-> doc.verblijfsobject.gebruiksdoelen],
             links |-> [maakt_deel_uit_van |-> doc.links]])

\* response.json::<VerblijfsObjectResponse>() (bag.rs:161-164)
decode_VerblijfsObjectResponse(doc) ==
    IF doc.kind # "json" \/ "verblijfsobject" \notin DOMAIN doc
    THEN Err("JsonProblem")
    ELSE Ok([verblijfsobject |->
                [status |-> IF doc.verblijfsobject.status = None THEN ""
                            ELSE doc.verblijfsobject.status[1],
                 oppervlakte |-> IF doc.verblijfsobject.oppervlakte = None THEN 0
                                 ELSE doc.verblijfsobject.oppervlakte[1],
                 gebruiksdoelen |-> doc.verblijfsobject.gebruiksdoelen],
             links |-> [maakt_deel_uit_van |-> doc.links]])

\* [String]::join(", ") (bag.rs:175)
RECURSIVE join(_, _)
join(strs, sep) ==
    IF strs = <<>> THEN ""
    ELSE IF Len(strs) = 1 THEN strs[1]
    ELSE strs[1] \o sep \o join(Tail(strs), sep)

panden_next_from_the_back(links, fetched) == links[Len(links) - fetched]

\* `for pand in panden` (bag.rs:182): the link the loop takes up after it
\* has gone through `fetched` of them.
panden_next(links, fetched) == links[fetched + 1]

get_link_retries_in_vain(reply) ==
    IF reply.kind = "transport_error"
    THEN Ok([pand |-> [identificatie |-> "", geometry |-> Geometry("Polygon", <<SquareRing>>),
                       bouwjaar |-> "", pandstatus |-> ""]])
    ELSE IF reply.doc.kind # "json" \/ "pand" \notin DOMAIN reply.doc
    THEN Err("JsonProblem")
    ELSE Ok([pand |-> reply.doc.pand])

get_link_swallows_error(reply) ==
    IF reply.kind = "transport_error" \/ reply.doc.kind # "json"
          \/ "pand" \notin DOMAIN reply.doc
    THEN Ok([pand |-> [identificatie |-> "", geometry |-> Geometry("Polygon", <<SquareRing>>),
                       bouwjaar |-> "", pandstatus |-> ""]])
    ELSE Ok([pand |-> reply.doc.pand])

\* get_link (bag.rs:91-96), given what came back for the request
get_link(reply) ==
    IF reply.kind = "transport_error" THEN Err("NetworkProblem")
    ELSE IF reply.doc.kind # "json" \/ "pand" \notin DOMAIN reply.doc
    THEN Err("JsonProblem")
    ELSE Ok([pand |-> reply.doc.pand])

get_panden_send_failed_propagates == Err("NetworkProblem")

\* get_panden, the Err(_) arm of the match on the root request (bag.rs:113)
get_panden_send_failed == Ok(<<>>)

new_Pand_per_building_status(building, polygon, c) ==
    [identificatiecode |-> building.pand.identificatie,
     geometry |-> building.pand.geometry,
     pandvlak |-> pandvlak_of(polygon),
     vloeroppervlak |-> ToString(vloeroppervlak[c]),
     bouwjaar |-> building.pand.bouwjaar,
     pandstatus |-> building.pand.pandstatus,
     objectstatus |-> building.pand.pandstatus,
     gebruiksdoel |-> gebruiksdoel[c]]

new_Pand_of_first_call(building, polygon, c) ==
    [identificatiecode |-> building.pand.identificatie,
     geometry |-> building.pand.geometry,
     pandvlak |-> pandvlak_of(polygon),
     vloeroppervlak |-> ToString(vloeroppervlak[1]),
     bouwjaar |-> building.pand.bouwjaar,
     pandstatus |-> building.pand.pandstatus,
     objectstatus |-> objectstatus[1],
     gebruiksdoel |-> gebruiksdoel[1]]

\* The Pand built from a fetched Building and the call's broadcast fields
\* (bag.rs:187-196).
new_Pand(building, polygon, c) ==
    [identificatiecode |-> building.pand.identificatie,
     geometry |-> building.pand.geometry,
     pandvlak |-> pandvlak_of(polygon),
     vloeroppervlak |-> ToString(vloeroppervlak[c]),
     bouwjaar |-> building.pand.bouwjaar,
     pandstatus |-> building.pand.pandstatus,
     objectstatus |-> objectstatus[c],
     gebruiksdoel |-> gebruiksdoel[c]]

\* results.push(pand) (bag.rs:198)
results_push(rs, pand) == Append(rs, pand)

get_bag_status_match_by_presence(panden_result) ==
    IF panden_result.kind = "panic" THEN Panic
    ELSE IF panden_result.kind = "Err" THEN panden_result
    ELSE Ok(Len(panden_result.val) = 1)

\* get_bag_status from the return of get_panden on (bag.rs:122-127): a
\* panic of get_panden unwinds through it, `?` hands an Err on, and the
\* match on panden.len() follows.
get_bag_status_match(panden_result) ==
    IF panden_result.kind = "panic" THEN Panic
    ELSE IF panden_result.kind = "Err" THEN panden_result
    ELSE IF Len(panden_result.val) = 1 THEN Ok(TRUE)
    ELSE Panic

\* The caller of call c goes on in the step in which get_panden returns:
\* get_bag_status when the run drives it (bag.rs:122).
get_panden_returns(c) ==
    status_ret' = IF entry = "bag_status" /\ ret'[c] # NoReturn
                  THEN get_bag_status_match(ret'[c])
                  ELSE status_ret

\* get_panden up to its first .await: the root request is issued
\* (bag.rs:101-109).
get_panden(c) ==
    /\ entry \in {"bag", "bag_status"}
    /\ pc[c] = "start"
    /\ sent' = [sent EXCEPT ![c] = <<RootUrl>>]
    /\ pc' = [pc EXCEPT ![c] = "await_root"]
    /\ UNCHANGED <<entry, cfgVars, rootDoc, linkDoc, replies, objectstatus, vloeroppervlak,
                   gebruiksdoel, panden, results, ret, status_ret, brkVars, fnVars>>

\* The root request fails at the transport level (bag.rs:111, 113).
get_panden_Err(c) ==
    /\ pc[c] = "await_root"
    /\ replies' = [replies EXCEPT ![c] = Append(@, TransportError)]
    /\ ret' = [ret EXCEPT ![c] = get_panden_send_failed]
    /\ pc' = [pc EXCEPT ![c] = "done"]
    /\ get_panden_returns(c)
    /\ UNCHANGED <<entry, cfgVars, rootDoc, linkDoc, sent, objectstatus, vloeroppervlak,
                   gebruiksdoel, panden, results, brkVars, fnVars>>

\* The root response arrives: decode_verblijfsobjecten runs up to the
\* first get_link request, or to its return when there is no link
\* (bag.rs:112, 161-183, 201).
decode_verblijfsobjecten(c) ==
    /\ pc[c] = "await_root"
    /\ replies' = [replies EXCEPT ![c] = Append(@, Body(rootDoc))]
    /\ LET decoded == decode_VerblijfsObjectResponse(rootDoc)
       IN  IF decoded.kind = "Err"
           THEN /\ ret' = [ret EXCEPT ![c] = decoded]
                /\ pc' = [pc EXCEPT ![c] = "done"]
                /\ UNCHANGED <<sent, objectstatus, vloeroppervlak, gebruiksdoel,
                               panden, results>>
           ELSE LET verblijfsobject == decoded.val.verblijfsobject
                    links == decoded.val.links
                IN  /\ objectstatus' = [objectstatus EXCEPT ![c] = verblijfsobject.status]
                    /\ vloeroppervlak' =
                           [vloeroppervlak EXCEPT ![c] = verblijfsobject.oppervlakte]
                    /\ gebruiksdoel' =
                           [gebruiksdoel EXCEPT
                               ![c] = join(verblijfsobject.gebruiksdoelen, ", ")]
                    /\ panden' = [panden EXCEPT ![c] = links.maakt_deel_uit_van]
                    /\ results' = [results EXCEPT ![c] = <<>>]
                    /\ IF links.maakt_deel_uit_van = <<>>
                       THEN /\ ret' = [ret EXCEPT ![c] = Ok(<<>>)]
                            /\ pc' = [pc EXCEPT ![c] = "done"]
                            /\ UNCHANGED sent
                       ELSE /\ sent' = [sent EXCEPT
                                           ![c] = Append(@, panden_next(
                                                      links.maakt_deel_uit_van, 0))]
                            /\ pc' = [pc EXCEPT ![c] = "await_link"]
                            /\ UNCHANGED ret
    /\ get_panden_returns(c)
    /\ UNCHANGED <<entry, cfgVars, rootDoc, linkDoc, brkVars, fnVars>>

\* One turn of the loop over the links, from the reply to the pending
\* get_link to the next get_link request or the return (bag.rs:182-201).
for_pand_in_panden(c, reply) ==
    /\ pc[c] = "await_link"
    /\ replies' = [replies EXCEPT ![c] = Append(@, reply)]
    /\ LET fetched == get_link(reply)
       IN  IF fetched.kind = "Err"
           THEN /\ ret' = [ret EXCEPT ![c] = fetched]
                /\ pc' = [pc EXCEPT ![c] = "done"]
                /\ UNCHANGED <<sent, results>>
           ELSE LET building == fetched.val
                    polygon == unwrap(geojson_value_to_polygon(building.pand.geometry.value))
                IN  IF polygon.kind = "panic"
                    THEN /\ ret' = [ret EXCEPT ![c] = Panic]
                         /\ pc' = [pc EXCEPT ![c] = "panicked"]
                         /\ UNCHANGED <<sent, results>>
                    ELSE LET pushed == results_push(results[c],
                                                    new_Pand(building, polygon.val, c))
                         IN  /\ results' = [results EXCEPT ![c] = pushed]
                             /\ IF Len(pushed) < Len(panden[c])
                                THEN /\ sent' = [sent EXCEPT
                                           ![c] = Append(@, panden_next(panden[c], Len(pushed)))]
                                     /\ UNCHANGED <<pc, ret>>
                                ELSE /\ ret' = [ret EXCEPT ![c] = Ok(pushed)]
                                     /\ pc' = [pc EXCEPT ![c] = "done"]
                                     /\ UNCHANGED sent
    /\ get_panden_returns(c)
    /\ UNCHANGED <<entry, cfgVars, rootDoc, linkDoc, objectstatus, vloeroppervlak, gebruiksdoel,
                   panden, brkVars, fnVars>>

\* The pending get_link request fails at the transport level.
get_link_Err(c) ==
    /\ pc[c] = "await_link"
    /\ for_pand_in_panden(c, TransportError)

\* The pending get_link request is answered with the registry's body.
get_link_Ok(c) ==
    /\ pc[c] = "await_link"
    /\ for_pand_in_panden(c, Body(linkDoc[sent[c][Len(sent[c])]]))

\* ------------------------------------------------------------------------
\* brk.rs: BrkClient::get_lot
\* A serde_json value is [t |-> "string", s], [t |-> "number", n] or
\* [t |-> "null"]; a feature is [properties, geometry] with properties a
\* function on the names present and geometry an Option.
\* ------------------------------------------------------------------------
JString(s) == [t |-> "string", s |-> s]
JNumber(n) == [t |-> "number", n |-> n]
JNull == [t |-> "null"]

\* serde_json's Display for Value, used by .to_string(): the JSON text of
\* the value, so a string comes out with its quotes.
Value_to_string(v) ==
    IF v.t = "string" THEN "\"" \o v.s \o "\""
    ELSE IF v.t = "number" THEN ToString(v.n)
    ELSE "null"

Value_as_f64(v) == IF v.t = "number" THEN Some(v.n) ELSE None
Value_as_u64(v) == IF v.t = "number" /\ v.n >= 0 THEN Some(v.n) ELSE None

\* Feature::property (brk.rs:121)
property(feature, key) ==
    IF key \in DOMAIN feature.properties THEN Some(feature.properties[key]) ELSE None

\* The closure of brk.rs:119-145: the Lot of one feature, or a panic when
\* one of its unwrap() calls meets None.
new_Lot(feature) ==
    IF \/ property(feature, "identificatieLokaalID") = None
       \/ property(feature, "kadastraleGemeenteWaarde") = None
       \/ property(feature, "kadastraleGemeenteCode") = None
       \/ property(feature, "kadastraleGrootteWaarde") = None
       \/ property(feature, "sectie") = None
       \/ property(feature, "perceelnummer") = None
       \/ feature.geometry = None
    THEN Panic
    ELSE IF Value_as_u64(feature.properties["perceelnummer"]) = None THEN Panic
    ELSE Returned(
           [id |-> Value_to_string(feature.properties["identificatieLokaalID"]),
            gemeentenaam |->
                Some(Value_to_string(feature.properties["kadastraleGemeenteWaarde"])),
            kadastralegemeentecode |->
                Some(Value_to_string(feature.properties["kadastraleGemeenteCode"])),
            grootte |-> Value_as_f64(feature.properties["kadastraleGrootteWaarde"]),
            sectie |-> Some(Value_to_string(feature.properties["sectie"])),
            perceelnummer |-> Some(Value_as_u64(feature.properties["perceelnummer"])[1]),
            geometry |-> feature.geometry[1]])

lots_never_empty_error(lots) == Ok(lots)

\* brk.rs:147-151
lots_or_EmptyResponse(lots) ==
    IF lots = <<>> THEN Err("EmptyResponse") ELSE Ok(lots)

\* response.features.iter().map(..).collect() (brk.rs:116-146)
collect_lots(features) ==
    IF \E i \in 1..Len(features) : new_Lot(features[i]).kind = "panic"
    THEN Panic
    ELSE Returned([i \in 1..Len(features) |-> new_Lot(features[i]).val])

\* What get_lot does with the reply to its request (brk.rs:110-154).
get_lot_match(reply) ==
    IF reply.kind = "transport_error" THEN Err("NetworkProblem")
    ELSE IF reply.doc.kind # "json" \/ "features" \notin DOMAIN reply.doc
    THEN Err("JsonProblem")
    ELSE LET lots == collect_lots(reply.doc.features)
         IN  IF lots.kind = "panic" THEN Panic ELSE lots_or_EmptyResponse(lots.val)

LotGeometry == Geometry("Polygon", <<SquareRing>>)

Features ==
    {[properties |-> [identificatieLokaalID |-> JString("22860503870000"),
                      kadastraleGemeenteWaarde |-> JString("Hatert"),
                      kadastraleGemeenteCode |-> JString("226"),
                      kadastraleGrootteWaarde |-> JNumber(1200),
                      sectie |-> JString("M"),
                      perceelnummer |-> JNumber(5038)],
      geometry |-> Some(LotGeometry)],
     [properties |-> [identificatieLokaalID |-> JString("22860200170000"),
                      kadastraleGemeenteWaarde |-> JString("Hatert"),
                      kadastraleGemeenteCode |-> JString("226"),
                      kadastraleGrootteWaarde |-> JNull,
                      sectie |-> JString("B"),
                      perceelnummer |-> JNumber(17)],
      geometry |-> Some(LotGeometry)],
     [properties |-> [identificatieLokaalID |-> JString("22860503880000"),
                      kadastraleGemeenteWaarde |-> JString("Hatert"),
                      kadastraleGemeenteCode |-> JString("226"),
                      kadastraleGrootteWaarde |-> JNumber(300),
                      perceelnummer |-> JNumber(5039)],
      geometry |-> Some(LotGeometry)],
     [properties |-> [identificatieLokaalID |-> JString("22860503890000"),
                      kadastraleGemeenteWaarde |-> JString("Hatert"),
                      kadastraleGemeenteCode |-> JString("226"),
                      kadastraleGrootteWaarde |-> JNumber(300),
                      sectie |-> JString("M"),
                      perceelnummer |-> JString("5040")],
      geometry |-> Some(LotGeometry)],
     [properties |-> [identificatieLokaalID |-> JString("22860503900000"),
                      kadastraleGemeenteWaarde |-> JString("Hatert"),
                      kadastraleGemeenteCode |-> JString("226"),
                      kadastraleGrootteWaarde |-> JNumber(300),
                      sectie |-> JString("M"),
                      perceelnummer |-> JNumber(5041)],
      geometry |-> None]}

FeatureCollectionDocs ==
    {[kind |-> "json", features |-> fs] : fs \in SeqsUpTo(Features, MaxFeatures)}

Queries == {<<"HTT02", "M", "5038">>, <<"HTT02", "B", "17">>}

\* get_lot up to its .await: the request is issued (brk.rs:89-109).
get_lot ==
    /\ entry = "brk"
    /\ brk_pc = "start"
    /\ brk_pc' = "await"
    /\ UNCHANGED <<entry, cfgVars, bagVars, brkDoc, brk_query, brk_reply, brk_ret, fnVars>>

\* The request fails at the transport level (brk.rs:111).
get_lot_Err ==
    /\ brk_pc = "await"
    /\ brk_reply' = Some(TransportError)
    /\ brk_ret' = get_lot_match(TransportError)
    /\ brk_pc' = "done"
    /\ UNCHANGED <<entry, cfgVars, bagVars, brkDoc, brk_query, fnVars>>

\* The response arrives and is decoded (brk.rs:112-153).
get_lot_Ok ==
    /\ brk_pc = "await"
    /\ brk_reply' = Some(Body(brkDoc))
    /\ brk_ret' = get_lot_match(Body(brkDoc))
    /\ brk_pc' = IF get_lot_match(Body(brkDoc)).kind = "panic" THEN "panicked" ELSE "done"
    /\ UNCHANGED <<entry, cfgVars, bagVars, brkDoc, brk_query, fnVars>>

\* ------------------------------------------------------------------------
\* util.rs: bounding boxes.  A Rect is [min, max] of Coord [x, y].
\* ------------------------------------------------------------------------
Min(a, b) == IF a < b THEN a ELSE b
Max(a, b) == IF a > b THEN a ELSE b

Coord(x, y) == [x |-> x, y |-> y]

\* geo::Rect::new orders the two corners per axis.
Rect_new(c1, c2) ==
    [min |-> Coord(Min(c1.x, c2.x), Min(c1.y, c2.y)),
     max |-> Coord(Max(c1.x, c2.x), Max(c1.y, c2.y))]

Rect_width(rect) == rect.max.x - rect.min.x
Rect_height(rect) == rect.max.y - rect.min.y
\* Rect::centroid: the input coordinates are even, the halves are exact
Rect_centroid(rect) ==
    Coord((rect.min.x + rect.max.x) \div 2, (rect.min.y + rect.max.y) \div 2)

merge_bboxes_min_of_max(acc, r) ==
    Rect_new(Coord(Min(acc.min.x, r.min.x), Min(acc.min.y, r.min.y)),
             Coord(Min(acc.max.x, r.max.x), Max(acc.max.y, r.max.y)))

\* util.rs:56-67
merge_bboxes(acc, r) ==
    Rect_new(Coord(Min(acc.min.x, r.min.x), Min(acc.min.y, r.min.y)),
             Coord(Max(acc.max.x, r.max.x), Max(acc.max.y, r.max.y)))

\* util.rs:27-34, with func = merge_bboxes (its only use): the first item
\* is the initial accumulator and the rest are folded into it, in order.
fold_first(iter) ==
    IF iter = <<>> THEN None
    ELSE LET first == Head(iter)
             rest == Tail(iter)
             acc[i \in 0..Len(rest)] ==
                 IF i = 0 THEN first ELSE merge_bboxes(acc[i - 1], rest[i])
         IN  Some(acc[Len(rest)])

\* util.rs:16-21
merge_bbox_iter(iter) == fold_first(iter)

\* util.rs:70-86.  Rect::min() and Rect::max() return the corner by value,
\* so each of the four assignments writes a field of a temporary Coord
\* that is dropped at the end of its statement: rect itself (which the
\* function does not even bind as mut) is returned as it came in.
stretch_to_square(rect) ==
    LET height == Rect_height(rect)
        width == Rect_width(rect)
        hheight == height \div 2
        hwidth == width \div 2
        centroid == Rect_centroid(rect)
        temporary == IF Rect_height(rect) < Rect_width(rect)
                     THEN <<[rect.min EXCEPT !.y = centroid.y - hwidth],
                            [rect.max EXCEPT !.y = centroid.y + hwidth]>>
                     ELSE <<[rect.min EXCEPT !.x = centroid.x - hheight],
                            [rect.max EXCEPT !.x = centroid.x + hheight]>>
    IN  rect

\* util.rs:89-93
add_margin(rect, margin) ==
    Rect_new(Coord(rect.min.x - margin, rect.min.y - margin),
             Coord(rect.max.x + margin, rect.max.y + margin))

\* util.rs:97-107: "width" is measured along y
expand_to_size(rect, size) ==
    LET square_bbox == stretch_to_square(rect)
        width == square_bbox.max.y - square_bbox.min.y
        margin == (size - width) \div 2
    IN  add_margin(square_bbox, margin)

\* ------------------------------------------------------------------------
\* Equality and ordering of Lot (brk.rs:180-204) and Pand (bag.rs:261-285)
\* A String that is compared is modelled by the sequence of its bytes; the
\* other fields of the value are carried along unchanged.
\* ------------------------------------------------------------------------
Less == "Less"
Equal == "Equal"
Greater == "Greater"

\* <String as PartialOrd>::lt, the `<` of brk.rs:197 and bag.rs:278: the
\* byte strings are compared position by position, a proper prefix is
\* smaller.
RECURSIVE str_lt(_, _)
str_lt(a, b) ==
    IF b = <<>> THEN FALSE
    ELSE IF a = <<>> THEN TRUE
    ELSE IF a[1] # b[1] THEN a[1] < b[1]
    ELSE str_lt(Tail(a), Tail(b))

Lot_eq_all_fields(self, other) == self = other

\* brk.rs:180-184
Lot_eq(self, other) == self.id = other.id

\* brk.rs:194-204
Lot_cmp(self, other) ==
    IF Lot_eq(self, other) THEN Equal
    ELSE IF str_lt(self.id, other.id) THEN Less
    ELSE Greater

\* bag.rs:261-265
Pand_eq(self, other) == self.identificatiecode = other.identificatiecode

\* bag.rs:275-285
Pand_cmp(self, other) ==
    IF Pand_eq(self, other) THEN Equal
    ELSE IF str_lt(self.identificatiecode, other.identificatiecode) THEN Less
    ELSE Greater

\* ------------------------------------------------------------------------
\* The pure functions, applied to an argument drawn at the start
\* ------------------------------------------------------------------------
Rings == {SquareRing, HoleRing3D, OpenRing, BadRing}

GeoJsonValues ==
    {[type |-> "Polygon", coordinates |-> rs] : rs \in SeqsUpTo(Rings, MaxRings)}
    \cup {[type |-> "Point", coordinates |-> <<2, 2>>],
          [type |-> "LineString", coordinates |-> SquareRing],
          [type |-> "MultiPoint", coordinates |-> SquareRing],
          [type |-> "MultiPolygon", coordinates |-> <<<<SquareRing, HoleRing3D>>>>]}

Xs == {0, 2, 4}
Ys == {0, 2}
Rects == {Rect_new(Coord(x1, y1), Coord(x2, y2)) : x1, x2 \in Xs, y1, y2 \in Ys}
Sizes == {0, 2, 4, 6}

apply_geojson_value_to_polygon ==
    /\ entry = "fn"
    /\ fn_out = NotRun
    /\ fn_in[1].f = "geojson_value_to_polygon"
    /\ fn_out' = geojson_value_to_polygon(fn_in[1].value)
    /\ UNCHANGED <<entry, cfgVars, bagVars, brkVars, fn_in>>

apply_merge_bbox_iter ==
    /\ entry = "fn"
    /\ fn_out = NotRun
    /\ fn_in[1].f = "merge_bbox_iter"
    /\ fn_out' = Returned(merge_bbox_iter(fn_in[1].iter))
    /\ UNCHANGED <<entry, cfgVars, bagVars, brkVars, fn_in>>

apply_stretch_to_square ==
    /\ entry = "fn"
    /\ fn_out = NotRun
    /\ fn_in[1].f = "stretch_to_square"
    /\ fn_out' = Returned(stretch_to_square(fn_in[1].rect))
    /\ UNCHANGED <<entry, cfgVars, bagVars, brkVars, fn_in>>

apply_expand_to_size ==
    /\ entry = "fn"
    /\ fn_out = NotRun
    /\ fn_in[1].f = "expand_to_size"
    /\ fn_out' = Returned(expand_to_size(fn_in[1].rect, fn_in[1].size))
    /\ UNCHANGED <<entry, cfgVars, bagVars, brkVars, fn_in>>

Bytes == {1, 2}
Ids == SeqsUpTo(Bytes, MaxIdLen)
Lots == {[id |-> i, perceelnummer |-> n] : i \in Ids, n \in {17, 5038}}
Panden == {[identificatiecode |-> i, bouwjaar |-> y] : i \in Ids, y \in {1900, 2001}}

\* eq and cmp applied to the pairs of three values a, b, c.
apply_Lot_cmp ==
    /\ entry = "fn"
    /\ fn_out = NotRun
    /\ fn_in[1].f = "Lot_cmp"
    /\ LET a == fn_in[1].a
           b == fn_in[1].b
           c == fn_in[1].c
       IN  fn_out' = Returned([eq_ab |-> Lot_eq(a, b), cmp_ab |-> Lot_cmp(a, b),
                               cmp_ba |-> Lot_cmp(b, a), cmp_bc |-> Lot_cmp(b, c),
                               cmp_ac |-> Lot_cmp(a, c)])
    /\ UNCHANGED <<entry, cfgVars, bagVars, brkVars, fn_in>>

apply_Pand_cmp ==
    /\ entry = "fn"
    /\ fn_out = NotRun
    /\ fn_in[1].f = "Pand_cmp"
    /\ LET a == fn_in[1].a
           b == fn_in[1].b
           c == fn_in[1].c
       IN  fn_out' = Returned([eq_ab |-> Pand_eq(a, b), cmp_ab |-> Pand_cmp(a, b),
                               cmp_ba |-> Pand_cmp(b, a), cmp_bc |-> Pand_cmp(b, c),
                               cmp_ac |-> Pand_cmp(a, c)])
    /\ UNCHANGED <<entry, cfgVars, bagVars, brkVars, fn_in>>

\* ------------------------------------------------------------------------
\* lib.rs, bag.rs, brk.rs, lookup.rs: the client builders
\* A header map is a function from the names present to their values.
\* ------------------------------------------------------------------------
Rijksdriehoek == "Rijksdriehoek"
Gps == "Gps"

\* lib.rs:23-27
CoordinateSpace == {Rijksdriehoek, Gps}

\* bag.rs:206-208
BagCoordinateSpace == {Rijksdriehoek}

\* lib.rs:29-42
CoordinateSpace_as_str(self) ==
    CASE self = Rijksdriehoek -> "epsg:28992"
      [] self = Gps -> "epsg:4258"

\* bag.rs:210-219
BagCoordinateSpace_as_str(self) ==
    CASE self = Rijksdriehoek -> "epsg:28992"

UserAgent == "pdok-apis"
ApiKey == "api-key"

\* bag.rs:27-35
BagClientBuilder_new(user_agent, api_key) ==
    [kind |-> "bag",
     user_agent |-> user_agent,
     api_key |-> api_key,
     connection_timeout_secs |-> 5,
     request_timeout_secs |-> 20,
     accept_crs |-> Rijksdriehoek]

\* brk.rs:27-34
BrkClientBuilder_new(user_agent) ==
    [kind |-> "brk",
     user_agent |-> user_agent,
     accept_crs |-> Gps,
     connection_timeout_secs |-> 5,
     request_timeout_secs |-> 20]

\* lookup.rs:50-57
LookupClientBuilder_new(user_agent) ==
    [kind |-> "lookup",
     user_agent |-> user_agent,
     connection_timeout_secs |-> 10,
     request_timeout_secs |-> 30]

\* What reqwest::ClientBuilder ... .build() keeps of its configuration.
Client(user_agent, default_headers, connect_timeout, timeout) ==
    [user_agent |-> user_agent,
     default_headers |-> default_headers,
     connect_timeout |-> connect_timeout,
     timeout |-> timeout]

\* bag.rs:55-82
BagClientBuilder_build(self) ==
    LET headers == [h \in {"X-Api-Key", "Accept-Crs", "transfer-encoding"} |->
                       CASE h = "X-Api-Key" -> self.api_key
                         [] h = "Accept-Crs" -> BagCoordinateSpace_as_str(self.accept_crs)
                         [] h = "transfer-encoding" -> "chunked"]
    IN  [kind |-> "bag",
         client |-> Client(self.user_agent, headers, self.connection_timeout_secs,
                           self.request_timeout_secs)]

\* brk.rs:54-81
BrkClientBuilder_build(self) ==
    LET headers == [h \in {"Accept-Crs", "transfer-encoding"} |->
                       CASE h = "Accept-Crs" -> CoordinateSpace_as_str(self.accept_crs)
                         [] h = "transfer-encoding" -> "chunked"]
    IN  [kind |-> "brk",
         client |-> Client(self.user_agent, headers, self.connection_timeout_secs,
                           self.request_timeout_secs)]

\* lookup.rs:38-47: no default header is set
LookupClientBuilder_build(self) ==
    [kind |-> "lookup",
     client |-> Client(self.user_agent, <<>>, self.connection_timeout_secs,
                       self.request_timeout_secs)]

\* The seconds a caller passes to the timeout setters.
Secs == {1, 30}

\* bag.rs:37-40, brk.rs:37-40; LookupClientBuilder has no such method.
accept_crs(crs) ==
    /\ entry = "build"
    /\ client = None
    /\ Len(builder_calls) < MaxSetterCalls
    /\ \/ builder[1].kind = "bag" /\ crs \in BagCoordinateSpace
       \/ builder[1].kind = "brk" /\ crs \in CoordinateSpace
    /\ builder' = Some([builder[1] EXCEPT !.accept_crs = crs])
    /\ builder_calls' = Append(builder_calls, <<"accept_crs", crs>>)
    /\ UNCHANGED <<entry, client, bagVars, brkVars, fnVars>>

\* bag.rs:44-47, brk.rs:45-48, lookup.rs:28-31
connection_timeout_secs(secs) ==
    /\ entry = "build"
    /\ client = None
    /\ Len(builder_calls) < MaxSetterCalls
    /\ builder' = Some([builder[1] EXCEPT !.connection_timeout_secs = secs])
    /\ builder_calls' = Append(builder_calls, <<"connection_timeout_secs", secs>>)
    /\ UNCHANGED <<entry, client, bagVars, brkVars, fnVars>>

\* bag.rs:49-52, brk.rs:50-53, lookup.rs:33-36
request_timeout_secs(secs) ==
    /\ entry = "build"
    /\ client = None
    /\ Len(builder_calls) < MaxSetterCalls
    /\ builder' = Some([builder[1] EXCEPT !.request_timeout_secs = secs])
    /\ builder_calls' = Append(builder_calls, <<"request_timeout_secs", secs>>)
    /\ UNCHANGED <<entry, client, bagVars, brkVars, fnVars>>

\* bag.rs:55-82, brk.rs:54-81, lookup.rs:38-47
build ==
    /\ entry = "build"
    /\ client = None
    /\ client' = Some(CASE builder[1].kind = "bag" -> BagClientBuilder_build(builder[1])
                        [] builder[1].kind = "brk" -> BrkClientBuilder_build(builder[1])
                        [] builder[1].kind = "lookup" ->
                               LookupClientBuilder_build(builder[1]))
    /\ UNCHANGED <<entry, builder, builder_calls, bagVars, brkVars, fnVars>>

\* ------------------------------------------------------------------------
\* Initial states and the next-state relation
\* ------------------------------------------------------------------------
BagIdle ==
    /\ rootDoc = Garbage
    /\ linkDoc = [h \in Hrefs |-> Garbage]
    /\ pc = [c \in Calls |-> "unused"]
    /\ sent = [c \in Calls |-> <<>>]
    /\ replies = [c \in Calls |-> <<>>]
    /\ objectstatus = [c \in Calls |-> ""]
    /\ vloeroppervlak = [c \in Calls |-> 0]
    /\ gebruiksdoel = [c \in Calls |-> ""]
    /\ panden = [c \in Calls |-> <<>>]
    /\ results = [c \in Calls |-> <<>>]
    /\ ret = [c \in Calls |-> NoReturn]
    /\ status_ret = NoReturn

BrkIdle ==
    /\ brkDoc = Garbage
    /\ brk_pc = "unused"
    /\ brk_query = <<"", "", "">>
    /\ brk_reply = None
    /\ brk_ret = NoReturn

FnIdle ==
    /\ fn_in = None
    /\ fn_out = NotRun

\* The run starts from a client that was built before: no builder is left.
Built(c) ==
    /\ builder = None
    /\ builder_calls = <<>>
    /\ client = Some(c)

NoClient ==
    /\ builder = None
    /\ builder_calls = <<>>
    /\ client = None

\* A client and one or two concurrent get_panden calls on it.
InitBag ==
    /\ entry = "bag"
    /\ rootDoc \in VerblijfsObjectDocs \cup {Garbage}
    /\ linkDoc \in [Hrefs -> UNION {BuildingDocs(h) : h \in Hrefs} \cup {Garbage}]
    /\ \A h \in Hrefs : linkDoc[h] \in BuildingDocs(h) \cup {Garbage}
    /\ pc \in [Calls -> {"start", "unused"}]
    /\ pc[1] = "start"
    /\ sent = [c \in Calls |-> <<>>]
    /\ replies = [c \in Calls |-> <<>>]
    /\ objectstatus = [c \in Calls |-> ""]
    /\ vloeroppervlak = [c \in Calls |-> 0]
    /\ gebruiksdoel = [c \in Calls |-> ""]
    /\ panden = [c \in Calls |-> <<>>]
    /\ results = [c \in Calls |-> <<>>]
    /\ ret = [c \in Calls |-> NoReturn]
    /\ status_ret = NoReturn
    /\ BrkIdle
    /\ FnIdle
    /\ Built(BagClientBuilder_build(BagClientBuilder_new(UserAgent, ApiKey)))

\* A client and one get_bag_status call on it, which runs get_panden for
\* its probe object as call 1.
InitBagStatus ==
    /\ entry = "bag_status"
    /\ rootDoc \in VerblijfsObjectDocs \cup {Garbage}
    /\ linkDoc \in [Hrefs -> UNION {BuildingDocs(h) : h \in Hrefs} \cup {Garbage}]
    /\ \A h \in Hrefs : linkDoc[h] \in BuildingDocs(h) \cup {Garbage}
    /\ pc = [c \in Calls |-> IF c = 1 THEN "start" ELSE "unused"]
    /\ sent = [c \in Calls |-> <<>>]
    /\ replies = [c \in Calls |-> <<>>]
    /\ objectstatus = [c \in Calls |-> ""]
    /\ vloeroppervlak = [c \in Calls |-> 0]
    /\ gebruiksdoel = [c \in Calls |-> ""]
    /\ panden = [c \in Calls |-> <<>>]
    /\ results = [c \in Calls |-> <<>>]
    /\ ret = [c \in Calls |-> NoReturn]
    /\ status_ret = NoReturn
    /\ BrkIdle
    /\ FnIdle
    /\ Built(BagClientBuilder_build(BagClientBuilder_new(UserAgent, ApiKey)))

\* One get_lot call.
InitBrk ==
    /\ entry = "brk"
    /\ BagIdle
    /\ brkDoc \in FeatureCollectionDocs \cup {Garbage}
    /\ brk_pc = "start"
    /\ brk_query \in Queries
    /\ brk_reply = None
    /\ brk_ret = NoReturn
    /\ FnIdle
    /\ Built(BrkClientBuilder_build(BrkClientBuilder_new(UserAgent)))

\* One application of a pure function.
InitFn ==
    /\ entry = "fn"
    /\ BagIdle
    /\ BrkIdle
    /\ fn_in \in {Some([f |-> "geojson_value_to_polygon", value |-> v])
                     : v \in GeoJsonValues}
                 \cup {Some([f |-> "merge_bbox_iter", iter |-> it])
                          : it \in SeqsUpTo(Rects, MaxBoxes)}
                 \cup {Some([f |-> "stretch_to_square", rect |-> r]) : r \in Rects}
                 \cup {Some([f |-> "expand_to_size", rect |-> r, size |-> sz])
                          : r \in Rects, sz \in Sizes}
                 \cup {Some([f |-> "Lot_cmp", a |-> a, b |-> b, c |-> c])
                          : a \in Lots, b \in Lots, c \in Lots}
                 \cup {Some([f |-> "Pand_cmp", a |-> a, b |-> b, c |-> c])
                          : a \in Panden, b \in Panden, c \in Panden}
    /\ fn_out = NotRun
    /\ NoClient

\* A builder fresh from new(), on which setters and then build are called.
InitBuild ==
    /\ entry = "build"
    /\ BagIdle
    /\ BrkIdle
    /\ FnIdle
    /\ builder \in {Some(BagClientBuilder_new(UserAgent, ApiKey)),
                    Some(BrkClientBuilder_new(UserAgent)),
                    Some(LookupClientBuilder_new(UserAgent))}
    /\ builder_calls = <<>>
    /\ client = None

Init == InitBag \/ InitBagStatus \/ InitBrk \/ InitFn \/ InitBuild

NextBag ==
    \E c \in Calls :
        \/ get_panden(c)
        \/ get_panden_Err(c)
        \/ decode_verblijfsobjecten(c)
        \/ get_link_Err(c)
        \/ get_link_Ok(c)

NextBrk == get_lot \/ get_lot_Err \/ get_lot_Ok

NextFn ==
    \/ apply_geojson_value_to_polygon
    \/ apply_merge_bbox_iter
    \/ apply_stretch_to_square
    \/ apply_expand_to_size
    \/ apply_Lot_cmp
    \/ apply_Pand_cmp

NextBuild ==
    \/ \E crs \in CoordinateSpace : accept_crs(crs)
    \/ \E secs \in Secs : connection_timeout_secs(secs)
    \/ \E secs \in Secs : request_timeout_secs(secs)
    \/ build

Next == NextBag \/ NextBrk \/ NextFn \/ NextBuild

Spec == Init /\ [][Next]_vars

\* ------------------------------------------------------------------------
\* Properties of get_panden
\* ------------------------------------------------------------------------

\* The root request of call c was answered (not failed) and its body is a
\* verblijfsobject record.
RootRecordReceived(c) ==
    /\ Len(replies[c]) >= 1
    /\ replies[c][1].kind = "body"
    /\ replies[c][1].doc.kind = "json"

RootLinks(c) == replies[c][1].doc.links

\* The i-th link fetch of call c was answered with a Building.
LinkFetched(c, i) ==
    /\ Len(replies[c]) >= i + 1
    /\ replies[c][i + 1].kind = "body"
    /\ replies[c][i + 1].doc.kind = "json"

FetchedBuilding(c, i) == replies[c][i + 1].doc.pand

\* The i-th link fetch of call c failed, by transport or by decoding.
LinkFailed(c, i) ==
    /\ Len(replies[c]) >= i + 1
    /\ \/ replies[c][i + 1].kind = "transport_error"
       \/ replies[c][i + 1].doc.kind # "json"

MalformedRing(ring) == \E k \in 1..Len(ring) : Len(ring[k]) \notin {2, 3}

MalformedGeometry(value) ==
    /\ value.type = "Polygon"
    /\ \E r \in 1..Len(value.coordinates) : MalformedRing(value.coordinates[r])

DerivedFrom(pand, building) ==
    /\ pand.identificatiecode = building.identificatie
    /\ pand.bouwjaar = building.bouwjaar
    /\ pand.pandstatus = building.pandstatus
    /\ pand.geometry = building.geometry

\* C1: when the root record carries N links and all N link fetches succeed
\* (every one is answered with a Building; a Building whose ring has a
\* malformed position is C5's case and is left out here), get_panden
\* returns exactly N Pand values, the i-th derived from the Building fetched
\* at the i-th link.
C1_AllFetchedGivesNInOrder ==
    \A c \in Calls :
        ( /\ RootRecordReceived(c)
          /\ \A i \in 1..Len(RootLinks(c)) :
                /\ LinkFetched(c, i)
                /\ ~MalformedGeometry(FetchedBuilding(c, i).geometry.value) )
        => /\ ret[c].kind = "Ok"
           /\ Len(ret[c].val) = Len(RootLinks(c))
           /\ \A i \in 1..Len(RootLinks(c)) :
                 /\ sent[c][i + 1] = RootLinks(c)[i]
                 /\ DerivedFrom(ret[c].val[i], FetchedBuilding(c, i))

\* C2: a transport failure of the root request makes get_panden return
\* Ok of the empty sequence without any follow-up request, the same value
\* it returns for a record without links.
C2_RootTransportFailureIsEmptyOk ==
    \A c \in Calls :
        /\ (Len(replies[c]) >= 1 /\ replies[c][1].kind = "transport_error")
              => /\ pc[c] = "done"
                 /\ ret[c] = Ok(<<>>)
                 /\ sent[c] = <<RootUrl>>
                 /\ Len(replies[c]) = 1
        /\ (RootRecordReceived(c) /\ RootLinks(c) = <<>>)
              => /\ pc[c] = "done"
                 /\ ret[c] = Ok(<<>>)

C2_Witness ==
    \E c, d \in Calls :
        /\ pc[c] = "done" /\ pc[d] = "done"
        /\ replies[c] = <<TransportError>>
        /\ RootRecordReceived(d) /\ RootLinks(d) = <<>>
        /\ ret[c] = ret[d]

\* C3: when the fetch of a linked Building fails, at whatever position,
\* get_panden returns an error and no sequence, partial or not.
C3_LinkFailureAbortsTheCall ==
    \A c \in Calls :
        \A i \in 1..MaxLinks + 1 :
            LinkFailed(c, i)
               => /\ pc[c] = "done"
                  /\ ret[c].kind = "Err"
                  /\ ret[c].err \in {"NetworkProblem", "JsonProblem"}
                  /\ Len(replies[c]) = i + 1

\* A later link fails after an earlier one was fetched and turned into a Pand.
C3_Witness ==
    \E c \in Calls :
        /\ LinkFetched(c, 1)
        /\ Len(results[c]) = 1
        /\ LinkFailed(c, 2)
        /\ ret[c].kind = "Err"

\* C4: in a returned sequence every Pand carries the identifier,
\* construction year and building status of the Building fetched for it,
\* and all of them carry the floor area, object status and joined usage
\* label of the root record.
C4_PandFields ==
    \A c \in Calls :
        (ret[c].kind = "Ok" /\ RootRecordReceived(c))
        => LET vo == replies[c][1].doc.verblijfsobject
           IN  \A i \in 1..Len(ret[c].val) :
                  /\ LinkFetched(c, i)
                  /\ ret[c].val[i].identificatiecode = FetchedBuilding(c, i).identificatie
                  /\ ret[c].val[i].bouwjaar = FetchedBuilding(c, i).bouwjaar
                  /\ ret[c].val[i].pandstatus = FetchedBuilding(c, i).pandstatus
                  /\ ret[c].val[i].vloeroppervlak =
                        (IF vo.oppervlakte = None THEN "0" ELSE ToString(vo.oppervlakte[1]))
                  /\ ret[c].val[i].objectstatus =
                        (IF vo.status = None THEN "" ELSE vo.status[1])
                  /\ ret[c].val[i].gebruiksdoel = join(vo.gebruiksdoelen, ", ")
                  /\ \A j \in 1..Len(ret[c].val) :
                        /\ ret[c].val[i].vloeroppervlak = ret[c].val[j].vloeroppervlak
                        /\ ret[c].val[i].objectstatus = ret[c].val[j].objectstatus
                        /\ ret[c].val[i].gebruiksdoel = ret[c].val[j].gebruiksdoel

\* Two different buildings resolved for a record with two usage labels.
C4_Witness ==
    \E c \in Calls :
        /\ ret[c].kind = "Ok"
        /\ Len(ret[c].val) = 2
        /\ ret[c].val[1].identificatiecode # ret[c].val[2].identificatiecode
        /\ ret[c].val[1].pandstatus # ret[c].val[1].objectstatus
        /\ ret[c].val[1].gebruiksdoel = "woonfunctie, kantoorfunctie"

\* C5: a fetched Building whose ring holds a position of neither 2 nor 3
\* components makes get_panden return a MalformedGeometry error value,
\* one of four distinct error kinds.
C5_MalformedGeometryIsAnErrorValue ==
    \A c \in Calls :
        \A i \in 1..MaxLinks + 1 :
            (LinkFetched(c, i) /\ MalformedGeometry(FetchedBuilding(c, i).geometry.value))
               => /\ ret[c].kind = "Err"
                  /\ ret[c].err = "MalformedGeometry"

\* ------------------------------------------------------------------------
\* Properties of get_lot
\* ------------------------------------------------------------------------

\* C6: get_lot returns EmptyResponse exactly when the request was answered
\* with a feature collection that holds no feature; a transport failure
\* gives NetworkProblem and an undecodable body JsonProblem; an Ok result
\* is never empty and holds one Lot per feature, in response order.
C6_GetLotResults ==
    brk_pc \in {"done", "panicked"}
    => LET reply == brk_reply[1]
           decoded == reply.kind = "body" /\ reply.doc.kind = "json"
       IN  /\ (brk_ret = Err("EmptyResponse"))
                 <=> (decoded /\ reply.doc.features = <<>>)
           /\ reply.kind = "transport_error" => brk_ret = Err("NetworkProblem")
           /\ (reply.kind = "body" /\ reply.doc.kind # "json")
                 => brk_ret = Err("JsonProblem")
           /\ brk_ret.kind = "Ok"
                 => /\ decoded
                    /\ Len(brk_ret.val) >= 1
                    /\ Len(brk_ret.val) = Len(reply.doc.features)
                    /\ \A i \in 1..Len(brk_ret.val) :
                          brk_ret.val[i].perceelnummer
                             = Some(reply.doc.features[i].properties["perceelnummer"].n)

C6_Witness ==
    /\ brk_pc = "done"
    /\ brk_reply = Some(Body([kind |-> "json", features |-> <<>>]))
    /\ brk_ret = Err("EmptyResponse")

\* ------------------------------------------------------------------------
\* Properties of the pure functions
\* ------------------------------------------------------------------------
Applied(f) == fn_in # None /\ fn_in[1].f = f /\ fn_out # NotRun

RingPoints(ring) == [i \in 1..Len(ring) |-> <<ring[i][1], ring[i][2]>>]

\* The linestring holds the (x, y) points of the ring, closed by
\* geo::Polygon::new when the ring was not.
IsRing(ls, ring) ==
    /\ Len(ls) \in {Len(ring), Len(ring) + 1}
    /\ SubSeq(ls, 1, Len(ring)) = RingPoints(ring)
    /\ ls[Len(ls)] = ls[1]

PolygonOfRings(out, rings) ==
    /\ out.kind = "ret"
    /\ out.val # None
    /\ IsRing(out.val[1].exterior, rings[1])
    /\ Len(out.val[1].interiors) = Len(rings) - 1
    /\ \A i \in 1..Len(rings) - 1 : IsRing(out.val[1].interiors[i], rings[i + 1])

\* C7 as stated: nothing for every value that is not a Polygon, and for
\* every Polygon of k >= 2 rings a polygon whose outer ring is the first
\* ring and whose holes are the k - 1 other rings, in ring order.
C7_AnyPolygonConverts ==
    Applied("geojson_value_to_polygon")
    => LET value == fn_in[1].value
       IN  /\ value.type # "Polygon" => fn_out = Returned(None)
           /\ (value.type = "Polygon" /\ Len(value.coordinates) >= 2)
                 => PolygonOfRings(fn_out, value.coordinates)

\* C7 amended: the same, for the Polygons of k >= 2 rings all of whose
\* positions have 2 or 3 components.
C7_WellFormedPolygonConverts ==
    Applied("geojson_value_to_polygon")
    => LET value == fn_in[1].value
       IN  /\ value.type # "Polygon" => fn_out = Returned(None)
           /\ ( /\ value.type = "Polygon"
                /\ Len(value.coordinates) >= 2
                /\ ~MalformedGeometry(value) )
                 => PolygonOfRings(fn_out, value.coordinates)

\* A Polygon of three well-formed rings, the two holes different.
C7_Witness ==
    /\ Applied("geojson_value_to_polygon")
    /\ fn_in[1].value.type = "Polygon"
    /\ Len(fn_in[1].value.coordinates) = 3
    /\ ~MalformedGeometry(fn_in[1].value)
    /\ fn_in[1].value.coordinates[1] = SquareRing
    /\ fn_in[1].value.coordinates[2] # fn_in[1].value.coordinates[3]
    /\ fn_out.kind = "ret"
    /\ Len(fn_out.val[1].interiors) = 2

SetMin(S) == CHOOSE m \in S : \A n \in S : m <= n
SetMax(S) == CHOOSE m \in S : \A n \in S : m >= n

\* The component-wise minimum of the min corners and maximum of the max
\* corners of a non-empty sequence of boxes.
Envelope(iter) ==
    [min |-> Coord(SetMin({iter[i].min.x : i \in 1..Len(iter)}),
                   SetMin({iter[i].min.y : i \in 1..Len(iter)})),
     max |-> Coord(SetMax({iter[i].max.x : i \in 1..Len(iter)}),
                   SetMax({iter[i].max.y : i \in 1..Len(iter)}))]

\* C8: merge_bbox_iter gives None for the empty sequence, the element
\* itself for a sequence of one, and for every non-empty sequence the
\* envelope of its boxes, the same for every permutation of the sequence
\* and for every way of merging a merged prefix with a merged suffix.
C8_MergeBboxIter ==
    Applied("merge_bbox_iter")
    => LET iter == fn_in[1].iter
           n == Len(iter)
           out == fn_out.val
       IN  /\ fn_out.kind = "ret"
           /\ iter = <<>> => out = None
           /\ n = 1 => out = Some(iter[1])
           /\ n >= 1
                 => /\ out = Some(Envelope(iter))
                    /\ \A p \in Permutations(1..n) :
                          merge_bbox_iter([i \in 1..n |-> iter[p[i]]]) = out
                    /\ \A k \in 1..n - 1 :
                          merge_bboxes(merge_bbox_iter(SubSeq(iter, 1, k))[1],
                                       merge_bbox_iter(SubSeq(iter, k + 1, n))[1])
                             = out[1]

\* Three boxes none of which contains the others' envelope.
C8_Witness ==
    /\ Applied("merge_bbox_iter")
    /\ Len(fn_in[1].iter) = 3
    /\ \A i \in 1..3 : fn_in[1].iter[i] # fn_out.val[1]
    /\ fn_in[1].iter[1] # fn_in[1].iter[2]
    /\ fn_out.val = Some(Envelope(fn_in[1].iter))

\* Twice the centroid, to stay in the integers.
Centroid2(rect) == Coord(rect.min.x + rect.max.x, rect.min.y + rect.max.y)

\* C9: expand_to_size gives a rectangle as wide as it is high, as wide as
\* the requested size, around the centroid of the input.
C9_ExpandToSizeIsSquareOfSize ==
    Applied("expand_to_size")
    => /\ Rect_width(fn_out.val) = Rect_height(fn_out.val)
       /\ Rect_width(fn_out.val) = fn_in[1].size
       /\ Centroid2(fn_out.val) = Centroid2(fn_in[1].rect)

\* C10: stretch_to_square gives a rectangle whose width and height both
\* equal the larger of the input's width and height, around the centroid
\* of the input.
C10_StretchToSquareIsSquare ==
    Applied("stretch_to_square")
    => /\ Rect_width(fn_out.val) = Rect_height(fn_out.val)
       /\ Rect_width(fn_out.val)
             = Max(Rect_width(fn_in[1].rect), Rect_height(fn_in[1].rect))
       /\ Centroid2(fn_out.val) = Centroid2(fn_in[1].rect)

\* ------------------------------------------------------------------------
\* Properties of the equality and the ordering of Lot and Pand
\* ------------------------------------------------------------------------

\* a is before b in the lexicographic order of byte strings: they agree on
\* a prefix after which a ends and b does not, or a has the smaller byte.
LexBefore(a, b) ==
    \E k \in 0..Len(a) :
        /\ k <= Len(b)
        /\ \A i \in 1..k : a[i] = b[i]
        /\ \/ k = Len(a) /\ k < Len(b)
           \/ k < Len(a) /\ k < Len(b) /\ a[k + 1] < b[k + 1]

\* What C11 asks of the results on a, b, c whose identifiers are ia, ib, ic.
IdentifierOrder(out, ia, ib, ic) ==
    /\ out.eq_ab <=> ia = ib
    /\ out.cmp_ab = Equal <=> out.eq_ab
    /\ out.cmp_ab = Less <=> LexBefore(ia, ib)
    /\ out.cmp_ab = Greater <=> LexBefore(ib, ia)
    /\ out.cmp_ab = Less <=> out.cmp_ba = Greater
    /\ out.cmp_ab = Less /\ out.cmp_bc = Less => out.cmp_ac = Less
    /\ out.cmp_ab = Equal /\ out.cmp_bc = Equal => out.cmp_ac = Equal

\* C11: for Lot and for Pand, equality and ordering depend on the
\* identifier alone: eq is equality of the identifiers whatever the other
\* fields hold, cmp is the lexicographic order of the identifiers, cmp is
\* Equal exactly when eq holds, and the order is antisymmetric and
\* transitive.
C11_IdentifierAloneOrders ==
    /\ Applied("Lot_cmp") =>
           IdentifierOrder(fn_out.val, fn_in[1].a.id, fn_in[1].b.id, fn_in[1].c.id)
    /\ Applied("Pand_cmp") =>
           IdentifierOrder(fn_out.val, fn_in[1].a.identificatiecode,
                           fn_in[1].b.identificatiecode, fn_in[1].c.identificatiecode)

\* Two Lots with the same identifier and different other fields were
\* compared and found equal, and both are before a third Lot of which
\* their identifier is a proper prefix.
C11_Witness ==
    /\ Applied("Lot_cmp")
    /\ fn_in[1].a.id = <<1>>
    /\ fn_in[1].b.id = <<1>>
    /\ fn_in[1].c.id = <<1, 2>>
    /\ fn_in[1].a.perceelnummer # fn_in[1].b.perceelnummer
    /\ fn_out.val.eq_ab
    /\ fn_out.val.cmp_ab = Equal
    /\ fn_out.val.cmp_bc = Less
    /\ fn_out.val.cmp_ac = Less

\* ------------------------------------------------------------------------
\* Properties of the client builders
\* ------------------------------------------------------------------------

\* The coordinate system the built client asks for on its requests: the
\* value of its default Accept-Crs header, None when it sends none.
NegotiatedCrs ==
    LET headers == client[1].client.default_headers
    IN  IF "Accept-Crs" \in DOMAIN headers THEN Some(headers["Accept-Crs"]) ELSE None

\* The accept_crs calls made on the builder, in order.
AcceptCrsCalls == SelectSeq(builder_calls, LAMBDA call : call[1] = "accept_crs")

\* C12: a client built without any accept_crs call asks for epsg:28992
\* when it is the building or the lot client, and the address client is
\* left with the geodetic system (it names no other system); after
\* accept_crs calls the built client asks for the system set last.
C12_DefaultAndExplicitCrs ==
    client # None /\ builder # None =>
        IF AcceptCrsCalls = <<>>
        THEN /\ client[1].kind \in {"bag", "brk"} => NegotiatedCrs = Some("epsg:28992")
             /\ client[1].kind = "lookup" => NegotiatedCrs \in {None, Some("epsg:4258")}
        ELSE NegotiatedCrs =
                 Some(CoordinateSpace_as_str(AcceptCrsCalls[Len(AcceptCrsCalls)][2]))

\* ------------------------------------------------------------------------
\* Properties of the fields of a Lot
\* ------------------------------------------------------------------------

\* C13: every Lot of a successful get_lot carries the text of its
\* feature's properties unchanged: sectie is the feature's section text
\* (the one-character string M for section M), id the text of
\* identificatieLokaalID and gemeentenaam the text of
\* kadastraleGemeenteWaarde.
C13_LotTextFieldsAreThePropertyTexts ==
    (brk_pc = "done" /\ brk_ret.kind = "Ok")
    => \A i \in 1..Len(brk_ret.val) :
          LET properties == brk_reply[1].doc.features[i].properties
              lot == brk_ret.val[i]
          IN  /\ properties["sectie"].t = "string"
                    => lot.sectie = Some(properties["sectie"].s)
              /\ properties["identificatieLokaalID"].t = "string"
                    => lot.id = properties["identificatieLokaalID"].s
              /\ properties["kadastraleGemeenteWaarde"].t = "string"
                    => lot.gemeentenaam = Some(properties["kadastraleGemeenteWaarde"].s)

\* ------------------------------------------------------------------------
\* Properties of concurrent get_panden calls
\* Every call is driven as a task of its own: a panic ends that call only.
\* ------------------------------------------------------------------------

\* The Pand a call running by itself builds from the root record and one
\* fetched Building.
PandAlone(record, building, polygon) ==
    [identificatiecode |-> building.pand.identificatie,
     geometry |-> building.pand.geometry,
     pandvlak |-> pandvlak_of(polygon),
     vloeroppervlak |-> ToString(record.verblijfsobject.oppervlakte),
     bouwjaar |-> building.pand.bouwjaar,
     pandstatus |-> building.pand.pandstatus,
     objectstatus |-> record.verblijfsobject.status,
     gebruiksdoel |-> join(record.verblijfsobject.gebruiksdoelen, ", ")]

\* A call running by itself, from its i-th link on, given the replies rs
\* to its requests and the Pand values acc built so far: the requests it
\* issues and what it returns (NoReturn while a reply is outstanding).
RECURSIVE LinksAlone(_, _, _, _)
LinksAlone(record, rs, i, acc) ==
    LET links == record.links.maakt_deel_uit_van
    IN  IF i > Len(links) THEN [sent |-> <<>>, ret |-> Ok(acc)]
        ELSE IF Len(rs) < i + 1 THEN [sent |-> <<links[i]>>, ret |-> NoReturn]
        ELSE LET fetched == get_link(rs[i + 1])
                 polygon == unwrap(geojson_value_to_polygon(
                                       fetched.val.pand.geometry.value))
             IN  IF fetched.kind = "Err" THEN [sent |-> <<links[i]>>, ret |-> fetched]
                 ELSE IF polygon.kind = "panic" THEN [sent |-> <<links[i]>>, ret |-> Panic]
                 ELSE LET rest == LinksAlone(record, rs, i + 1,
                                             Append(acc, PandAlone(record, fetched.val,
                                                                   polygon.val)))
                      IN  [sent |-> <<links[i]>> \o rest.sent, ret |-> rest.ret]

\* The same for the whole call.
CallAlone(rs) ==
    IF rs = <<>> THEN [sent |-> <<RootUrl>>, ret |-> NoReturn]
    ELSE IF rs[1].kind = "transport_error" THEN [sent |-> <<RootUrl>>, ret |-> Ok(<<>>)]
    ELSE LET decoded == decode_VerblijfsObjectResponse(rs[1].doc)
         IN  IF decoded.kind = "Err" THEN [sent |-> <<RootUrl>>, ret |-> decoded]
             ELSE LET rest == LinksAlone(decoded.val, rs, 1, <<>>)
                  IN  [sent |-> <<RootUrl>> \o rest.sent, ret |-> rest.ret]

\* C14: concurrent get_panden calls on one client share no mutable state:
\* whatever the interleaving of their steps, the client's configuration
\* stays what build made it, and every call has issued the requests and
\* returned the result that it would have when running by itself and
\* receiving the same replies.
C14_ConcurrentCallsAreIndependent ==
    entry = "bag" =>
        /\ client = Some(BagClientBuilder_build(BagClientBuilder_new(UserAgent, ApiKey)))
        /\ \A c \in Calls :
              pc[c] \notin {"unused", "start"}
              => /\ sent[c] = CallAlone(replies[c]).sent
                 /\ ret[c] = CallAlone(replies[c]).ret

\* The second call has resolved two buildings while the first call, begun
\* as well, still waits for its first Building.
C14_Witness ==
    /\ pc[1] = "await_link"
    /\ Len(replies[1]) = 1
    /\ pc[2] = "done"
    /\ ret[2].kind = "Ok"
    /\ Len(ret[2].val) = 2
    /\ ret[2].val[1].objectstatus # ""

\* ------------------------------------------------------------------------
\* Properties of the order of the requests of one get_panden call
\* ------------------------------------------------------------------------

\* The requests of call c that have not been answered yet.
InFlight(c) == Len(sent[c]) - Len(replies[c])

\* C15: the link fetches of a call are issued one at a time, in link
\* order: at most one request of the call is in flight, a link is fetched
\* only after the root response was received and decoded, and link i + 1
\* only after the Building of link i was received.
C15_LinkFetchesAreSequential ==
    \A c \in Calls :
        /\ InFlight(c) \in {0, 1}
        /\ InFlight(c) = 1 <=> pc[c] \in {"await_root", "await_link"}
        /\ Len(sent[c]) >= 2 =>
              /\ RootRecordReceived(c)
              /\ decode_VerblijfsObjectResponse(replies[c][1].doc).kind = "Ok"
              /\ Len(sent[c]) <= 1 + Len(RootLinks(c))
        /\ \A i \in 1..Len(sent[c]) - 1 :
              /\ sent[c][i + 1] = RootLinks(c)[i]
              /\ \A j \in 1..i - 1 : LinkFetched(c, j)

\* The fetch of the second of two different links is in flight, the first
\* Building has been received.
C15_Witness ==
    \E c \in Calls :
        /\ pc[c] = "await_link"
        /\ Len(RootLinks(c)) = 2
        /\ RootLinks(c)[1] # RootLinks(c)[2]
        /\ Len(sent[c]) = 3
        /\ LinkFetched(c, 1)
        /\ InFlight(c) = 1

\* The k-th request of call c failed: no response, or a body that does not
\* decode as what was asked for.
RequestFailed(c, k) ==
    /\ k <= Len(replies[c])
    /\ \/ replies[c][k].kind = "transport_error"
       \/ replies[c][k].doc.kind # "json"

\* A step of call c.
CallStep(c) ==
    \/ get_panden(c)
    \/ get_panden_Err(c)
    \/ decode_verblijfsobjecten(c)
    \/ get_link_Err(c)
    \/ get_link_Ok(c)

\* C16: nothing is retried: a call issues the root request once and at
\* most one request per link position; once a request has failed it was
\* the call's last request, and the call has ended and takes no further
\* step.
C16_NoRetry ==
    \A c \in Calls :
        /\ pc[c] \notin {"unused", "start"} =>
              /\ sent[c][1] = RootUrl
              /\ \A k \in 2..Len(sent[c]) : sent[c][k] # RootUrl
              /\ Len(sent[c]) <= 1 + MaxLinks
              /\ Len(sent[c]) >= 2 => Len(sent[c]) <= 1 + Len(RootLinks(c))
        /\ \A k \in 1..MaxLinks + 1 :
              RequestFailed(c, k) =>
                 /\ k = Len(sent[c])
                 /\ k = Len(replies[c])
                 /\ pc[c] = "done"
                 /\ ret[c] # NoReturn
        /\ pc[c] \in {"done", "panicked"} => ~ENABLED CallStep(c)

\* The first of two link fetches failed by transport after the root record
\* was received: two requests were issued, the second link was never
\* asked for, and the call has returned.
C16_Witness ==
    \E c \in Calls :
        /\ RootRecordReceived(c)
        /\ Len(RootLinks(c)) = 2
        /\ Len(replies[c]) = 2
        /\ replies[c][2] = TransportError
        /\ Len(sent[c]) = 2
        /\ pc[c] = "done"
        /\ ret[c] = Err("NetworkProblem")

\* ------------------------------------------------------------------------
\* Properties of the failures of get_panden
\* ------------------------------------------------------------------------

\* C17: the only failure get_panden turns into a success is a transport
\* failure of the root request: a root body that does not decode gives
\* JsonProblem, a link fetch that fails gives NetworkProblem (transport)
\* or JsonProblem (decoding), and a call with any of these three failures
\* never returns a sequence, empty or partial.
C17_OnlyRootTransportFailureIsSwallowed ==
    \A c \in Calls :
        /\ (Len(replies[c]) >= 1 /\ replies[c][1].kind = "body"
               /\ replies[c][1].doc.kind # "json")
              => ret[c] = Err("JsonProblem")
        /\ \A i \in 1..MaxLinks + 1 :
              LinkFailed(c, i)
                 => ret[c] = IF replies[c][i + 1].kind = "transport_error"
                             THEN Err("NetworkProblem")
                             ELSE Err("JsonProblem")
        /\ (ret[c].kind = "Ok" /\ \E k \in 1..MaxLinks + 2 : RequestFailed(c, k))
              => /\ replies[c] = <<TransportError>>
                 /\ ret[c] = Ok(<<>>)

\* One Building was fetched and turned into a Pand, then the body of the
\* second link did not decode: the call returned JsonProblem and not the
\* one Pand it had.
C17_Witness ==
    \E c \in Calls :
        /\ pc[c] = "done"
        /\ Len(results[c]) = 1
        /\ Len(replies[c]) = 3
        /\ replies[c][3] = Body(Garbage)
        /\ ret[c] = Err("JsonProblem")

\* C18: a fetched Building whose geometry is not a Polygon is not an
\* error: when every link answered so far gave a Building of well-formed
\* or non-Polygon geometry, the call has neither failed nor panicked.
C18_NonPolygonGeometryIsNotAnError ==
    \A c \in Calls :
        ( /\ RootRecordReceived(c)
          /\ \A i \in 1..Len(replies[c]) - 1 :
                /\ LinkFetched(c, i)
                /\ ~MalformedGeometry(FetchedBuilding(c, i).geometry.value)
          /\ \E i \in 1..Len(replies[c]) - 1 :
                FetchedBuilding(c, i).geometry.value.type # "Polygon" )
        => /\ pc[c] # "panicked"
           /\ ret[c].kind \notin {"Err", "panic"}

\* ------------------------------------------------------------------------
\* Properties of get_bag_status
\* ------------------------------------------------------------------------

\* C19: get_bag_status never returns Ok(false): it returns Ok(true)
\* exactly when its get_panden call returned exactly one Pand, an Err
\* exactly when get_panden returned that Err, and it panics in every other
\* case, among them zero or several Pand values and the root transport
\* failure that get_panden turns into an empty sequence.
C19_BagStatusIsTrueErrOrPanic ==
    (entry = "bag_status" /\ pc[1] \in {"done", "panicked"})
    => /\ status_ret # Ok(FALSE)
       /\ status_ret = Ok(TRUE) <=> (ret[1].kind = "Ok" /\ Len(ret[1].val) = 1)
       /\ status_ret.kind = "Err" <=> ret[1].kind = "Err"
       /\ ret[1].kind = "Err" => status_ret = ret[1]
       /\ (ret[1].kind = "Ok" /\ Len(ret[1].val) # 1) => status_ret = Panic
       /\ replies[1] = <<TransportError>> => status_ret = Panic
       /\ status_ret.kind \in {"Ok", "Err", "panic"}

\* The root request of the probe failed by transport: get_panden returned
\* the empty sequence and get_bag_status panicked.
C19_Witness ==
    /\ entry = "bag_status"
    /\ replies[1] = <<TransportError>>
    /\ ret[1] = Ok(<<>>)
    /\ status_ret = Panic

====
